---------------------------- MODULE Spec2Model ----------------------------
(***************************************************************************)
(* A model of quantix (src/src/quantix/quantix.py): the ioctl control-code *)
(* encoder, the Quantix device handle (construction, __enter__, __exit__,  *)
(* close, __del__), the control channel _ioctl with its facade queries,    *)
(* and the entropy readers built on read().                                *)
(*                                                                         *)
(* Representation of Python values.  TLC integers are 32-bit signed, while *)
(* the program handles unsigned 32- and 64-bit quantities, so:             *)
(*   - a non-negative Python int that may need up to 64 bits is a sequence *)
(*     of four 16-bit limbs, least significant first;                    *)
(*   - an ioctl request code is the set of its bit positions that are 1;   *)
(*   - a Python float that results from int / 2**k is the pair of the      *)
(*     numerator rounded to a 53-bit significand (5 limbs, since rounding  *)
(*     may carry into bit 64) and the exponent k;                          *)
(*   - bytes objects and lists of ints are sequences of 0..255.            *)
(***************************************************************************)
EXTENDS Integers, Sequences, FiniteSets, TLC

(***************************************************************************)
(* Bounds of the model.                                                    *)
(***************************************************************************)
\* Number of bytes the device can deliver in one behaviour; once the stream
\* is exhausted every read is short.
StreamLen == 9
\* Largest size passed to read() and read_bytes_list(); sizes start at -1.
MaxRead == 2
\* Descriptor numbers the operating system can hand out (1..MaxFds).
MaxFds == 2
\* read_int_range() bounds are drawn from {-RangeMax, 0, RangeMax}.
RangeMax == 1
\* Bit positions above bit 31 that a request code is tracked over.
SpareBits == 2
\* Deepest nesting of with-blocks on the one handle.
MaxDepth == 2

(***************************************************************************)
(* Generic helpers.                                                        *)
(***************************************************************************)
Min(a, b) == IF a <= b THEN a ELSE b

Reverse(s) == [i \in 1..Len(s) |-> s[Len(s) + 1 - i]]

Pow2(n) == 2 ^ n

\* Bit i of a small non-negative integer (x < 2^31).
BitOf(x, i) == IF i > 30 THEN 0 ELSE (x \div Pow2(i)) % 2

(***************************************************************************)
(* ioctl request encoding, quantix.py lines 36-98.                         *)
(***************************************************************************)
_IOC_NRBITS == 8
_IOC_TYPEBITS == 8
_IOC_SIZEBITS == 14
_IOC_DIRBITS == 2

_IOC_NRSHIFT == 0
_IOC_TYPESHIFT == _IOC_NRSHIFT + _IOC_NRBITS
_IOC_SIZESHIFT == _IOC_TYPESHIFT + _IOC_TYPEBITS
_IOC_DIRSHIFT == _IOC_SIZESHIFT + _IOC_SIZEBITS

_IOC_NONE == 0
_IOC_WRITE == 1
_IOC_READ == 2

\* Bit positions of a request code in the model.
CodeBits == 0..(_IOC_DIRSHIFT + _IOC_DIRBITS + SpareBits - 1)

\* x << s on a Python int, as the set of the bits that are 1.
Shl(x, s) == {i \in CodeBits : i >= s /\ BitOf(x, i - s) = 1}

\* a | b on sets of bits.
BitOr(a, b) == a \cup b

\* ord('q')
OrdQ == 113

\* A faulty _IOC: the direction shifted one bit short, onto the top size bit.
ioc_dir_low(dir, type, nr, size) ==
    BitOr(BitOr(BitOr(Shl(dir, _IOC_DIRSHIFT - 1), Shl(type, _IOC_TYPESHIFT)),
                Shl(nr, _IOC_NRSHIFT)),
          Shl(size, _IOC_SIZESHIFT))

\* _IOC(dir, type, nr, size); type is given by its code point ord(type).
_IOC(dir, type, nr, size) ==
    BitOr(BitOr(BitOr(Shl(dir, _IOC_DIRSHIFT), Shl(type, _IOC_TYPESHIFT)),
                Shl(nr, _IOC_NRSHIFT)),
          Shl(size, _IOC_SIZESHIFT))

_IOR(type, nr, size) == _IOC(_IOC_READ, type, nr, size)
_IOW(type, nr, size) == _IOC(_IOC_WRITE, type, nr, size)
_IO(type, nr) == _IOC(_IOC_NONE, type, nr, 0)

QUANTIS_IOCTL_GET_DRIVER_VERSION == _IOR(OrdQ, 0, 4)
QUANTIS_IOCTL_GET_CARD_COUNT == _IOR(OrdQ, 1, 4)
QUANTIS_IOCTL_GET_MODULES_MASK == _IOR(OrdQ, 2, 4)
QUANTIS_IOCTL_GET_BOARD_VERSION == _IOR(OrdQ, 3, 4)
QUANTIS_IOCTL_RESET_BOARD == _IO(OrdQ, 4)
QUANTIS_IOCTL_ENABLE_MODULE == _IOW(OrdQ, 5, 4)
QUANTIS_IOCTL_DISABLE_MODULE == _IOW(OrdQ, 6, 4)
QUANTIS_IOCTL_GET_MODULES_STATUS == _IOR(OrdQ, 8, 4)
QUANTIS_IOCTL_GET_PCI_BUS_DEVICE_ID == _IOR(OrdQ, 9, 4)

IOCTL_READ_OPS ==
    { QUANTIS_IOCTL_GET_DRIVER_VERSION,
      QUANTIS_IOCTL_GET_CARD_COUNT,
      QUANTIS_IOCTL_GET_MODULES_MASK,
      QUANTIS_IOCTL_GET_BOARD_VERSION,
      QUANTIS_IOCTL_GET_MODULES_STATUS,
      QUANTIS_IOCTL_GET_PCI_BUS_DEVICE_ID }

\* A faulty IOCTL_WRITE_OPS: the disable request left out of the set.
write_ops_short == { QUANTIS_IOCTL_ENABLE_MODULE }

IOCTL_WRITE_OPS ==
    { QUANTIS_IOCTL_ENABLE_MODULE,
      QUANTIS_IOCTL_DISABLE_MODULE }

\* Field values handed to the encoder: the corners of each field's width,
\* the values of the operation table, and one value past each width.
DirValues == 0..Pow2(_IOC_DIRBITS)
TypeValues == {0, OrdQ, Pow2(_IOC_TYPEBITS) - 1}
NrValues == {0, 1, 9, Pow2(_IOC_NRBITS) - 1, Pow2(_IOC_NRBITS)}
SizeValues == {0, 4, Pow2(_IOC_SIZEBITS - 1), Pow2(_IOC_SIZEBITS) - 1}
FieldTuples == [dir : DirValues, type : TypeValues, nr : NrValues, size : SizeValues]

Encoded(f) == _IOC(f.dir, f.type, f.nr, f.size)

\* The encoder before it has been applied.
NoEnc == [a |-> [dir |-> 0, type |-> 0, nr |-> 0, size |-> 0],
          b |-> [dir |-> 0, type |-> 0, nr |-> 0, size |-> 0],
          ca |-> Shl(0, 0), cb |-> Shl(0, 0), done |-> FALSE]


(***************************************************************************)
(* State.                                                                  *)
(***************************************************************************)
VARIABLES
    obj,        \* life of the Quantix object: "absent", "failed", "ready", "collected"
    device_path,\* self.device_path, NoPath until __init__ sets it
    _fd,        \* self._fd: None or the descriptor of the open file object
    osOpen,     \* descriptors opened by this handle that the OS still holds open
    pos,        \* number of bytes the device has delivered so far (offset in S)
    byteorder,  \* sys.byteorder of the platform: "little" or "big"
    sys,        \* the OS calls issued by the last operation, in order
    ret,        \* what the last operation returned or raised
    released,   \* history: the handle has released a descriptor at some time
    depth,      \* number of with-blocks on the handle that have been entered and not left
    enc         \* the control-code encoder at work: two field tuples and their codes

vars == <<obj, device_path, _fd, osOpen, pos, byteorder, sys, ret, released, depth, enc>>

(***************************************************************************)
(* Python ints as 16-bit limbs, struct.pack / struct.unpack, int / 2**k.   *)
(***************************************************************************)
LimbBase == Pow2(16)
LimbIdx == 1..4
ZeroLimbs == [i \in LimbIdx |-> 0]

\* A small non-negative int (< 2^16) as limbs.
ToLimbs(x) == [i \in LimbIdx |-> IF i = 1 THEN x ELSE 0]

\* The bytes of data in little-endian order, whatever the native order is.
NativeToLE(data) == IF byteorder = "little" THEN data ELSE Reverse(data)

\* struct.calcsize of the native unsigned formats used: "H", "I", "Q".
CalcSize(fmt) == CASE fmt = "H" -> 2 [] fmt = "I" -> 4 [] fmt = "Q" -> 8

\* struct.unpack(fmt, data)[0] for an unsigned native format.
Unpack(fmt, data) ==
    LET b == NativeToLE(SubSeq(data, 1, CalcSize(fmt)))
        byteAt(i) == IF i <= Len(b) THEN b[i] ELSE 0
    IN  [k \in LimbIdx |-> byteAt(2 * k - 1) + 256 * byteAt(2 * k)]

\* struct.pack("I", v): the low 32 bits of v in native byte order.
PackI(v) ==
    NativeToLE(<<v[1] % 256, v[1] \div 256, v[2] % 256, v[2] \div 256>>)

RECURSIVE BitLength(_)
\* int.bit_length() of a limb.
BitLength(x) == IF x = 0 THEN 0 ELSE 1 + BitLength(x \div 2)

\* Index of the most significant non-zero limb, 0 for the value zero.
TopLimb(v) ==
    IF \A i \in DOMAIN v : v[i] = 0 THEN 0
    ELSE CHOOSE i \in DOMAIN v : v[i] # 0 /\ \A j \in DOMAIN v : j > i => v[j] = 0

LimbsBitLength(v) ==
    IF TopLimb(v) = 0 THEN 0 ELSE 16 * (TopLimb(v) - 1) + BitLength(v[TopLimb(v)])

RECURSIVE Propagate(_, _)
\* Carry propagation from limb i upwards.
Propagate(v, i) ==
    IF i >= Len(v) THEN v
    ELSE IF v[i] >= LimbBase
         THEN Propagate([v EXCEPT ![i] = v[i] - LimbBase, ![i + 1] = v[i + 1] + 1], i + 1)
         ELSE Propagate(v, i + 1)

\* Significand width of the float type (IEEE-754 double).
DBL_MANT_DIG == 53

\* The integer v rounded to DBL_MANT_DIG significant bits, ties to even, as
\* int / int true division rounds its result; one limb wider than v.
RoundToDouble(v) ==
    LET w == v \o <<0>>
        shift == LimbsBitLength(v) - DBL_MANT_DIG
    IN  IF shift <= 0 THEN w
        ELSE LET rem == v[1] % Pow2(shift)
                 half == Pow2(shift - 1)
                 qodd == (v[1] \div Pow2(shift)) % 2 = 1
                 up == rem > half \/ (rem = half /\ qodd)
                 low == v[1] - rem + (IF up THEN Pow2(shift) ELSE 0)
             IN  Propagate([w EXCEPT ![1] = low], 1)

\* value / (2**k) as a float: <<rounded numerator limbs, k>>.
TrueDivPow2(v, k) == RoundToDouble(v) \o <<k>>

RECURSIVE ModFrom(_, _, _, _)
ModFrom(v, i, r, acc) ==
    IF i = 0 THEN acc ELSE ModFrom(v, i - 1, r, (acc * LimbBase + v[i]) % r)

\* value % r for a small positive r.
LimbsMod(v, r) == ModFrom(v, Len(v), r, 0)


(***************************************************************************)
(* The operating system and the device, as far as the handle sees them.    *)
(***************************************************************************)
\* self._fd = None
None == -1

\* device_path of an exception raised before self.device_path is set.
NoPath == "None"

\* Request field of an OS call that is not an ioctl.
NoReq == Shl(0, 0)

\* What the device emits: the byte at stream offset i under each generator.
Patterns == {"zeros", "ones", "ramp"}
ByteAt(p, i) ==
    CASE p = "zeros" -> 0
      [] p = "ones" -> 255
      [] p = "ramp" -> (i * 37 + 11) % 256

\* The k bytes of the stream from offset off on.
Segment(p, off, k) == [j \in 1..k |-> ByteAt(p, off + j - 1)]

\* 32-bit values the driver may write into an ioctl buffer.
HwValues == { <<5, 0, 0, 0>>, <<21, 3, 0, 0>>, <<65535, 65535, 0, 0>> }

\* Outcomes of open(2): a descriptor when one is free, or an error.
OsOpenResponses ==
    {"EACCES", "ENOENT"} \cup
    (IF (1..MaxFds) \ osOpen # {} THEN {"ok"} ELSE {"EMFILE"})

\* The OS hands out the lowest free descriptor number.
LowestFree == CHOOSE d \in (1..MaxFds) \ osOpen : \A e \in (1..MaxFds) \ osOpen : d <= e

\* Outcomes of close(2).  The descriptor is released in either case: the
\* file object gives up its descriptor before calling close(2), and Linux
\* releases the descriptor even when close(2) reports an error.
OsCloseResponses == {"ok", "EIO"}

\* How many bytes the device has ready when a read arrives.
Avail == {0, 1, 3, StreamLen}

\* Outcomes of one read(2): an error, or the device's answer (the generator
\* of the bytes and how many of them are ready).
OsReadResponses ==
    {[ok |-> FALSE, p |-> "zeros", avail |-> 0]} \cup
    [ok : {TRUE}, p : Patterns, avail : Avail]

\* The bytes one read(2) of n bytes delivers: the next bytes of the stream,
\* at most n, at most what is ready, nothing once the stream is exhausted.
OsRead(n, resp) ==
    IF resp.ok THEN Segment(resp.p, pos, Min(Min(n, resp.avail), StreamLen - pos))
    ELSE <<>>

\* Outcomes of one ioctl(2): an error, or success with the value the driver
\* writes for a read-direction request.
OsIoctlResponses ==
    {[ok |-> FALSE, value |-> ZeroLimbs]} \cup {[ok |-> TRUE, value |-> v] : v \in HwValues}

OsCall(call, fd, req, n, off, out, data, ok) ==
    [call |-> call, fd |-> fd, req |-> req, n |-> n, off |-> off,
     out |-> out, data |-> data, ok |-> ok]

(***************************************************************************)
(* Effects of a method: the new _fd, the OS side, the OS calls issued and  *)
(* what is returned (outcome "ok", val) or raised (outcome = the exception *)
(* class, kind = which raise statement, path = its device_path).  io is    *)
(* the value an inner _ioctl call returned to a facade method.             *)
(***************************************************************************)
Nop ==
    [fd |-> _fd, osOpen |-> osOpen, pos |-> pos, sys |-> <<>>,
     outcome |-> "ok", kind |-> "", path |-> NoPath, val |-> <<>>, io |-> <<>>]

Raise(fx, exc, kind, path) ==
    [fx EXCEPT !.outcome = exc, !.kind = kind, !.path = path, !.val = <<>>]

Return(fx, val) == [fx EXCEPT !.val = val]

\* A faulty __enter__: opens without looking at self._fd first.
enter_reopens(resp) ==
    LET new == IF resp = "ok" THEN LowestFree ELSE None
        opened == [Nop EXCEPT !.sys = <<OsCall("open", new, NoReq, 0, 0, <<>>, <<>>, resp = "ok")>>]
    IN  IF resp = "ok"
        THEN [opened EXCEPT !.fd = new, !.osOpen = osOpen \cup {new}]
        ELSE IF resp = "EACCES"
             THEN Raise(opened, "QuantixException", "permission", device_path)
             ELSE Raise(opened, "QuantixException", "access", device_path)

\* A faulty __enter__: only PermissionError is wrapped, other errors of
\* open() reach the caller as they are.
enter_raw_oserror(resp) ==
    IF _fd = None
    THEN LET new == IF resp = "ok" THEN LowestFree ELSE None
             opened == [Nop EXCEPT !.sys = <<OsCall("open", new, NoReq, 0, 0, <<>>, <<>>, resp = "ok")>>]
         IN  IF resp = "ok"
             THEN [opened EXCEPT !.fd = new, !.osOpen = osOpen \cup {new}]
             ELSE IF resp = "EACCES"
                  THEN Raise(opened, "QuantixException", "permission", device_path)
                  ELSE Raise(opened, "OSError", "access", NoPath)
    ELSE Nop

\* Quantix.__enter__
__enter__(resp) ==
    IF _fd = None
    THEN LET new == IF resp = "ok" THEN LowestFree ELSE None
             opened == [Nop EXCEPT !.sys = <<OsCall("open", new, NoReq, 0, 0, <<>>, <<>>, resp = "ok")>>]
         IN  IF resp = "ok"
             THEN [opened EXCEPT !.fd = new, !.osOpen = osOpen \cup {new}]
             ELSE IF resp = "EACCES"
                  THEN Raise(opened, "QuantixException", "permission", device_path)
                  ELSE Raise(opened, "QuantixException", "access", device_path)
    ELSE Nop

\* A faulty close: self._fd = None after the close() call instead of in a
\* finally clause, so a failing close() leaves the handle marked open.
close_no_finally(resp) ==
    IF _fd # None
    THEN [Nop EXCEPT !.sys = <<OsCall("close", _fd, NoReq, 0, 0, <<>>, <<>>, resp = "ok")>>,
                     !.osOpen = osOpen \ {_fd},
                     !.fd = IF resp = "ok" THEN None ELSE _fd]
    ELSE Nop

\* Quantix.close
close(resp) ==
    IF _fd # None
    THEN [Nop EXCEPT !.sys = <<OsCall("close", _fd, NoReq, 0, 0, <<>>, <<>>, resp = "ok")>>,
                     !.osOpen = osOpen \ {_fd},
                     !.fd = None]
    ELSE Nop

\* A faulty __exit__: leaves the handle as it is.
exit_keeps_open(resp) == Nop

\* Quantix.__exit__
__exit__(resp) == close(resp)

\* A faulty _ioctl: the check that the device is open left out.
ioctl_unchecked(request, arg, resp) ==
    LET buf == IF request \in IOCTL_READ_OPS THEN PackI(ToLimbs(0))
               ELSE IF request \in IOCTL_WRITE_OPS THEN PackI(ToLimbs(arg))
               ELSE <<>>
        result == IF resp.ok /\ request \in IOCTL_READ_OPS
                  THEN PackI(resp.value) ELSE <<>>
        called == [Nop EXCEPT !.sys = <<OsCall("ioctl", _fd, request, Len(buf), 0,
                                                buf, result, resp.ok)>>]
    IN  IF ~resp.ok
        THEN Raise(called, "QuantixException", "ioctl_failed", device_path)
        ELSE IF request \in IOCTL_READ_OPS
             THEN Return(called, Unpack("I", result))
             ELSE Return(called, ZeroLimbs)

\* Quantix._ioctl(request, arg)
_ioctl(request, arg, resp) ==
    IF _fd = None
    THEN Raise(Nop, "QuantixException", "not_open", device_path)
    ELSE LET buf == IF request \in IOCTL_READ_OPS THEN PackI(ToLimbs(0))
                    ELSE IF request \in IOCTL_WRITE_OPS THEN PackI(ToLimbs(arg))
                    ELSE <<>>
             result == IF resp.ok /\ request \in IOCTL_READ_OPS
                       THEN PackI(resp.value) ELSE <<>>
             called == [Nop EXCEPT !.sys = <<OsCall("ioctl", _fd, request, Len(buf), 0,
                                                     buf, result, resp.ok)>>]
         IN  IF ~resp.ok
             THEN Raise(called, "QuantixException", "ioctl_failed", device_path)
             ELSE IF request \in IOCTL_READ_OPS
                  THEN Return(called, Unpack("I", result))
                  ELSE Return(called, ZeroLimbs)

\* A faulty read: the length of what the OS delivered is not checked.
read_partial(size, resp) ==
    IF size <= 0
    THEN Raise(Nop, "ValueError", "size", NoPath)
    ELSE IF _fd = None
    THEN Raise(Nop, "QuantixException", "not_open", device_path)
    ELSE LET data == OsRead(size, resp)
             called == [Nop EXCEPT
                           !.sys = <<OsCall("read", _fd, NoReq, size, pos, <<>>,
                                            data, resp.ok)>>,
                           !.pos = pos + Len(data)]
         IN  IF ~resp.ok
             THEN Raise(called, "QuantixException", "read_failed", device_path)
             ELSE Return(called, data)

\* Quantix.read(size)
read(size, resp) ==
    IF size <= 0
    THEN Raise(Nop, "ValueError", "size", NoPath)
    ELSE IF _fd = None
    THEN Raise(Nop, "QuantixException", "not_open", device_path)
    ELSE LET data == OsRead(size, resp)
             called == [Nop EXCEPT
                           !.sys = <<OsCall("read", _fd, NoReq, size, pos, <<>>,
                                            data, resp.ok)>>,
                           !.pos = pos + Len(data)]
         IN  IF ~resp.ok
             THEN Raise(called, "QuantixException", "read_failed", device_path)
             ELSE IF Len(data) # size
                  THEN Raise(called, "QuantixException", "short_read", device_path)
                  ELSE Return(called, data)


(***************************************************************************)
(* Entropy readers built on read().                                        *)
(***************************************************************************)
\* Quantix.read_int
read_int(resp) ==
    LET data == read(4, resp)
    IN  IF data.outcome = "ok" THEN Return(data, Unpack("I", data.val)) ELSE data

\* A faulty read_short: reads 4 bytes and uses the first 2.
read_short_wide(resp) ==
    LET data == read(4, resp)
    IN  IF data.outcome = "ok" THEN Return(data, Unpack("H", data.val)) ELSE data

\* Quantix.read_short
read_short(resp) ==
    LET data == read(2, resp)
    IN  IF data.outcome = "ok" THEN Return(data, Unpack("H", data.val)) ELSE data

\* Quantix.read_float
read_float(resp) ==
    LET value == read_int(resp)
    IN  IF value.outcome = "ok" THEN Return(value, TrueDivPow2(value.val, 32)) ELSE value

\* Quantix.read_double
read_double(resp) ==
    LET data == read(8, resp)
    IN  IF data.outcome = "ok"
        THEN Return(data, TrueDivPow2(Unpack("Q", data.val), 64))
        ELSE data

\* A faulty read_int_range: the range taken one too wide.
read_int_range_wide(min_val, max_val, resp) ==
    IF min_val > max_val
    THEN Raise(Nop, "ValueError", "range", NoPath)
    ELSE LET range_size == max_val - min_val + 2
             value == read_int(resp)
         IN  IF value.outcome = "ok"
             THEN Return(value, <<min_val + LimbsMod(value.val, range_size)>>)
             ELSE value

\* Quantix.read_int_range(min_val, max_val)
read_int_range(min_val, max_val, resp) ==
    IF min_val > max_val
    THEN Raise(Nop, "ValueError", "range", NoPath)
    ELSE LET range_size == max_val - min_val + 1
             value == read_int(resp)
         IN  IF value.outcome = "ok"
             THEN Return(value, <<min_val + LimbsMod(value.val, range_size)>>)
             ELSE value

\* Quantix.read_bytes_list(size)
read_bytes_list(size, resp) ==
    LET data == read(size, resp)
    IN  IF data.outcome = "ok" THEN Return(data, [i \in 1..Len(data.val) |-> data.val[i]])
        ELSE data

(***************************************************************************)
(* Device information and control methods built on _ioctl().               *)
(***************************************************************************)
\* A facade method's result: the inner _ioctl return is kept in io.
Facade(fx, val) == IF fx.outcome = "ok" THEN [fx EXCEPT !.io = fx.val, !.val = val] ELSE fx

\* Quantix.get_driver_version: version / 10.0, kept as <<version limbs, 10>>
\* (the quotient is not evaluated; nothing below depends on its rounding).
get_driver_version(resp) ==
    LET version == _ioctl(QUANTIS_IOCTL_GET_DRIVER_VERSION, 0, resp)
    IN  Facade(version, version.val \o <<10>>)

\* Quantix.get_board_version
get_board_version(resp) ==
    LET r == _ioctl(QUANTIS_IOCTL_GET_BOARD_VERSION, 0, resp) IN Facade(r, r.val)

\* Quantix.get_modules_mask
get_modules_mask(resp) ==
    LET r == _ioctl(QUANTIS_IOCTL_GET_MODULES_MASK, 0, resp) IN Facade(r, r.val)

\* Quantix.get_modules_status
get_modules_status(resp) ==
    LET r == _ioctl(QUANTIS_IOCTL_GET_MODULES_STATUS, 0, resp) IN Facade(r, r.val)

RECURSIVE PopCount(_)
\* bin(x).count("1") of a limb.
PopCount(x) == IF x = 0 THEN 0 ELSE (x % 2) + PopCount(x \div 2)

\* Quantix.get_modules_count
get_modules_count(resp) ==
    LET status == get_modules_status(resp)
    IN  IF status.outcome = "ok"
        THEN Return(status, <<PopCount(status.val[1]) + PopCount(status.val[2])
                              + PopCount(status.val[3]) + PopCount(status.val[4])>>)
        ELSE status

\* Quantix.reset_board
reset_board(resp) ==
    LET r == _ioctl(QUANTIS_IOCTL_RESET_BOARD, 0, resp) IN Facade(r, <<>>)

\* A faulty enable_module: the range check lets module 4 through.
enable_module_loose(module, resp) ==
    IF ~(0 <= module /\ module <= 4)
    THEN Raise(Nop, "ValueError", "module", NoPath)
    ELSE LET r == _ioctl(QUANTIS_IOCTL_ENABLE_MODULE, module, resp) IN Facade(r, <<>>)

\* Quantix.enable_module(module)
enable_module(module, resp) ==
    IF ~(0 <= module /\ module <= 3)
    THEN Raise(Nop, "ValueError", "module", NoPath)
    ELSE LET r == _ioctl(QUANTIS_IOCTL_ENABLE_MODULE, module, resp) IN Facade(r, <<>>)

\* Quantix.disable_module(module)
disable_module(module, resp) ==
    IF ~(0 <= module /\ module <= 3)
    THEN Raise(Nop, "ValueError", "module", NoPath)
    ELSE LET r == _ioctl(QUANTIS_IOCTL_DISABLE_MODULE, module, resp) IN Facade(r, <<>>)

\* value >> 16 on limbs.
ShiftRight16(v) == [i \in LimbIdx |-> IF i + 1 \in LimbIdx THEN v[i + 1] ELSE 0]

\* value & 0xFFFF on limbs.
AndFFFF(v) == v[1]

\* A faulty get_pci_info: bus_id is taken without the shift by 16.
pci_info_no_shift(resp) ==
    LET value == _ioctl(QUANTIS_IOCTL_GET_PCI_BUS_DEVICE_ID, 0, resp)
    IN  IF value.outcome = "ok"
        THEN LET bus_id == AndFFFF(value.val)
                 device_id == AndFFFF(value.val)
             IN  Facade(value, <<bus_id, device_id>>)
        ELSE value

\* Quantix.get_pci_info
get_pci_info(resp) ==
    LET value == _ioctl(QUANTIS_IOCTL_GET_PCI_BUS_DEVICE_ID, 0, resp)
    IN  IF value.outcome = "ok"
        THEN LET bus_id == AndFFFF(ShiftRight16(value.val))
                 device_id == AndFFFF(value.val)
             IN  Facade(value, <<bus_id, device_id>>)
        ELSE value

\* A direct call self._ioctl(QUANTIS_IOCTL_GET_CARD_COUNT): the table row
\* that no facade method wraps.
get_card_count(resp) ==
    LET r == _ioctl(QUANTIS_IOCTL_GET_CARD_COUNT, 0, resp) IN Facade(r, r.val)

(***************************************************************************)
(* Actions: one per call a client can make on the object.                  *)
(***************************************************************************)
\* The state after method op(args) with effect fx.
Apply(op, args, fx) ==
    /\ _fd' = fx.fd
    /\ osOpen' = fx.osOpen
    /\ pos' = fx.pos
    /\ sys' = fx.sys
    /\ released' = (released \/ osOpen \ fx.osOpen # {})
    /\ ret' = [op |-> op, args |-> args, outcome |-> fx.outcome, kind |-> fx.kind,
               path |-> fx.path, val |-> fx.val, io |-> fx.io]

DEV_PREFIX == "/dev/qrandom"

\* f"{DEV_PREFIX}{device_number}"
DevicePathOf(device_number) ==
    CASE device_number = 0 -> "/dev/qrandom0"
      [] device_number = 1 -> "/dev/qrandom1"

DeviceNumbers == {0, 1}
\* class DeviceType(IntEnum)
PCI == 1
USB == 2
DeviceTypes == {PCI, USB}
ReadSizes == (-1)..MaxRead
RangeVals == {-RangeMax, 0, RangeMax}
ModuleArgs == (-1)..4

\* Quantix.__init__(device_type, device_number); exists is whether the
\* device node is there when Path(...).exists() looks.
Construct ==
    /\ obj = "absent"
    /\ \E device_type \in DeviceTypes, device_number \in DeviceNumbers, exists \in BOOLEAN :
          /\ obj' = IF device_type = USB \/ ~exists THEN "failed" ELSE "ready"
          /\ device_path' = IF device_type = USB THEN NoPath
                            ELSE DevicePathOf(device_number)
          /\ Apply("__init__", <<device_type, device_number, IF exists THEN 1 ELSE 0>>,
                   IF device_type = USB
                   THEN Raise([Nop EXCEPT !.fd = None], "QuantixException", "usb", NoPath)
                   ELSE IF ~exists
                   THEN Raise([Nop EXCEPT !.fd = None], "QuantixException", "not_found",
                              DevicePathOf(device_number))
                   ELSE [Nop EXCEPT !.fd = None])
    /\ UNCHANGED <<byteorder, enc, depth>>

Keep == UNCHANGED <<obj, device_path, byteorder, enc, depth>>

Enter ==
    /\ obj = "ready"
    /\ \E resp \in OsOpenResponses : Apply("__enter__", <<>>, __enter__(resp))
    /\ Keep

Exit ==
    /\ obj = "ready"
    /\ \E resp \in OsCloseResponses : Apply("__exit__", <<>>, __exit__(resp))
    /\ Keep

\* "with device:" reaching its body: __enter__ is called and the block is
\* entered only if it returns; if it raises, neither the body nor __exit__ run.
WithEnter ==
    /\ obj = "ready"
    /\ depth < MaxDepth
    /\ \E resp \in OsOpenResponses :
          LET fx == __enter__(resp)
          IN  /\ Apply("__enter__", <<>>, fx)
              /\ depth' = IF fx.outcome = "ok" THEN depth + 1 ELSE depth
    /\ UNCHANGED <<obj, device_path, byteorder, enc>>

\* Leaving the innermost with-block: __exit__(exc_type, exc_val, exc_tb) is
\* called on normal completion (exc = 0) and when an operation of the body
\* raised and the exception leaves the block (exc = 1).
WithExit ==
    /\ obj = "ready"
    /\ depth > 0
    /\ \E exc \in {0} \cup (IF ret.outcome # "ok" THEN {1} ELSE {}) :
       \E resp \in OsCloseResponses : Apply("__exit__", <<exc>>, __exit__(resp))
    /\ depth' = depth - 1
    /\ UNCHANGED <<obj, device_path, byteorder, enc>>

Close ==
    /\ obj = "ready"
    /\ \E resp \in OsCloseResponses : Apply("close", <<>>, close(resp))
    /\ Keep

\* Quantix.__del__: the finalizer, also of an object whose __init__ raised.
\* A with-block holds a reference to the object, so none is active.
Del ==
    /\ obj \in {"ready", "failed"}
    /\ depth = 0
    /\ \E resp \in OsCloseResponses : Apply("__del__", <<>>, close(resp))
    /\ obj' = "collected"
    /\ UNCHANGED <<device_path, byteorder, enc, depth>>

Read ==
    /\ obj = "ready"
    /\ \E size \in ReadSizes, resp \in OsReadResponses :
          Apply("read", <<size>>, read(size, resp))
    /\ Keep

ReadInt ==
    /\ obj = "ready"
    /\ \E resp \in OsReadResponses : Apply("read_int", <<>>, read_int(resp))
    /\ Keep

ReadShort ==
    /\ obj = "ready"
    /\ \E resp \in OsReadResponses : Apply("read_short", <<>>, read_short(resp))
    /\ Keep

ReadFloat ==
    /\ obj = "ready"
    /\ \E resp \in OsReadResponses : Apply("read_float", <<>>, read_float(resp))
    /\ Keep

ReadDouble ==
    /\ obj = "ready"
    /\ \E resp \in OsReadResponses : Apply("read_double", <<>>, read_double(resp))
    /\ Keep

ReadIntRange ==
    /\ obj = "ready"
    /\ \E min_val \in RangeVals, max_val \in RangeVals, resp \in OsReadResponses :
          Apply("read_int_range", <<min_val, max_val>>, read_int_range(min_val, max_val, resp))
    /\ Keep

ReadBytesList ==
    /\ obj = "ready"
    /\ \E size \in ReadSizes, resp \in OsReadResponses :
          Apply("read_bytes_list", <<size>>, read_bytes_list(size, resp))
    /\ Keep

GetDriverVersion ==
    /\ obj = "ready"
    /\ \E resp \in OsIoctlResponses : Apply("get_driver_version", <<>>, get_driver_version(resp))
    /\ Keep

GetBoardVersion ==
    /\ obj = "ready"
    /\ \E resp \in OsIoctlResponses : Apply("get_board_version", <<>>, get_board_version(resp))
    /\ Keep

GetModulesMask ==
    /\ obj = "ready"
    /\ \E resp \in OsIoctlResponses : Apply("get_modules_mask", <<>>, get_modules_mask(resp))
    /\ Keep

GetModulesStatus ==
    /\ obj = "ready"
    /\ \E resp \in OsIoctlResponses : Apply("get_modules_status", <<>>, get_modules_status(resp))
    /\ Keep

GetModulesCount ==
    /\ obj = "ready"
    /\ \E resp \in OsIoctlResponses : Apply("get_modules_count", <<>>, get_modules_count(resp))
    /\ Keep

GetPciInfo ==
    /\ obj = "ready"
    /\ \E resp \in OsIoctlResponses : Apply("get_pci_info", <<>>, get_pci_info(resp))
    /\ Keep

GetCardCount ==
    /\ obj = "ready"
    /\ \E resp \in OsIoctlResponses : Apply("_ioctl", <<>>, get_card_count(resp))
    /\ Keep

ResetBoard ==
    /\ obj = "ready"
    /\ \E resp \in OsIoctlResponses : Apply("reset_board", <<>>, reset_board(resp))
    /\ Keep

EnableModule ==
    /\ obj = "ready"
    /\ \E module \in ModuleArgs : \E resp \in OsIoctlResponses :
          Apply("enable_module", <<module>>, enable_module(module, resp))
    /\ Keep

DisableModule ==
    /\ obj = "ready"
    /\ \E module \in ModuleArgs : \E resp \in OsIoctlResponses :
          Apply("disable_module", <<module>>, disable_module(module, resp))
    /\ Keep

Init ==
    /\ obj = "absent"
    /\ device_path = NoPath
    /\ _fd = None
    /\ osOpen = {}
    /\ pos = 0
    /\ byteorder \in {"little", "big"}
    /\ sys = <<>>
    /\ ret = [op |-> "", args |-> <<>>, outcome |-> "ok", kind |-> "", path |-> NoPath,
              val |-> <<>>, io |-> <<>>]
    /\ released = FALSE
    /\ depth = 0
    /\ enc = NoEnc

Next ==
    \/ Construct
    \/ Enter
    \/ Exit
    \/ Close
    \/ Del
    \/ Read
    \/ ReadInt
    \/ ReadShort
    \/ ReadFloat
    \/ ReadDouble
    \/ ReadIntRange
    \/ ReadBytesList
    \/ GetDriverVersion
    \/ GetBoardVersion
    \/ GetModulesMask
    \/ GetModulesStatus
    \/ GetModulesCount
    \/ GetPciInfo
    \/ GetCardCount
    \/ ResetBoard
    \/ EnableModule
    \/ DisableModule

Spec == Init /\ [][Next]_vars

(***************************************************************************)
(* The client that also uses the handle in with-statements: the calls of   *)
(* Next, with __enter__ and __exit__ made by entering and leaving blocks.  *)
(***************************************************************************)
NextScoped ==
    \/ Next
    \/ WithEnter
    \/ WithExit

SpecScoped == Init /\ [][NextScoped]_vars


(***************************************************************************)
(* The encoder on its own: _IOC applied to two field tuples.               *)
(***************************************************************************)
Encode ==
    /\ ~enc.done
    /\ \E a \in FieldTuples, b \in FieldTuples :
          enc' = [a |-> a, b |-> b, ca |-> Encoded(a), cb |-> Encoded(b), done |-> TRUE]
    /\ UNCHANGED <<obj, device_path, _fd, osOpen, pos, byteorder, sys, ret, released, depth>>

NextIOC == Encode

SpecIOC == Init /\ [][NextIOC]_vars


(***************************************************************************)
(* Vocabulary of the properties.                                           *)
(***************************************************************************)
ReadOps == {"read", "read_int", "read_short", "read_float", "read_double",
            "read_int_range", "read_bytes_list"}

CtlOps == {"get_driver_version", "get_board_version", "get_modules_mask",
           "get_modules_status", "get_modules_count", "get_pci_info",
           "reset_board", "enable_module", "disable_module", "_ioctl"}

CloseOps == {"close", "__exit__", "__del__"}

\* The last call was made with arguments its method accepts.
ValidArgs ==
    CASE ret.op \in {"read", "read_bytes_list"} -> ret.args[1] > 0
      [] ret.op = "read_int_range" -> ret.args[1] <= ret.args[2]
      [] ret.op \in {"enable_module", "disable_module"} -> ret.args[1] \in 0..3
      [] OTHER -> TRUE

\* Documented number of bytes the last read call consumes.
DocLen ==
    CASE ret.op = "read_short" -> 2
      [] ret.op \in {"read_int", "read_float", "read_int_range"} -> 4
      [] ret.op = "read_double" -> 8
      [] ret.op \in {"read", "read_bytes_list"} -> ret.args[1]

IsBytes(s) == \A i \in 1..Len(s) : s[i] \in 0..255

\* The unsigned value of bytes given least significant first, as limbs.
LimbsOfLE(b) ==
    [k \in LimbIdx |-> (IF 2 * k - 1 <= Len(b) THEN b[2 * k - 1] ELSE 0)
                       + 256 * (IF 2 * k <= Len(b) THEN b[2 * k] ELSE 0)]

\* The unsigned value of bytes in the platform's order.
ValueOfBytes(b) == LimbsOfLE(IF byteorder = "big" THEN Reverse(b) ELSE b)

\* A limb value v lies in [0, 2^(16 * n)).
FitsLimbs(v, n) == \A i \in DOMAIN v : v[i] \in 0..(LimbBase - 1) /\ (i > n => v[i] = 0)

(***************************************************************************)
(* C1: the handle is constructed closed (no open is issued, _fd is None;   *)
(* a missing path or a USB type yields no usable handle), and in every     *)
(* reachable state _fd is not None iff exactly one descriptor opened by    *)
(* the handle is open at the OS, which is then the one recorded: never two *)
(* descriptors, never an open descriptor the handle does not record.       *)
(***************************************************************************)
C1_DescriptorIffOpen ==
    /\ Cardinality(osOpen) <= 1
    /\ (_fd # None) <=> (Cardinality(osOpen) = 1)
    /\ (_fd # None) => osOpen = {_fd}
    /\ obj \in {"absent", "failed"} => _fd = None
    /\ ret.op = "__init__" =>
          /\ _fd = None /\ sys = <<>>
          /\ (ret.args[1] = PCI /\ ret.args[3] = 1) => (obj = "ready" /\ ret.outcome = "ok")
          /\ ret.args[3] = 0 => (obj = "failed" /\ ret.outcome = "QuantixException")

\* The handle holds the descriptor a successful open just returned.
C1_Witness ==
    /\ ret.op = "__enter__" /\ ret.outcome = "ok" /\ Len(sys) = 1
    /\ _fd # None /\ osOpen = {_fd}

(***************************************************************************)
(* C2: read(n) with n > 0 on an open handle issues exactly one OS read for *)
(* n bytes; it returns exactly the n bytes delivered, or fails with a      *)
(* QuantixException (short read) when fewer than n bytes (0 included) were *)
(* delivered, returning nothing; read(n) with n <= 0 fails with ValueError *)
(* and issues no OS read, open handle or not.                              *)
(***************************************************************************)
C2_ReadExact ==
    ret.op = "read" =>
        /\ ret.args[1] <= 0 => (ret.outcome = "ValueError" /\ sys = <<>>)
        /\ (ret.args[1] > 0 /\ _fd # None) =>
              /\ Len(sys) = 1 /\ sys[1].call = "read" /\ sys[1].n = ret.args[1]
              /\ (sys[1].ok /\ Len(sys[1].data) = ret.args[1]) =>
                    (ret.outcome = "ok" /\ ret.val = sys[1].data)
              /\ (sys[1].ok /\ Len(sys[1].data) < ret.args[1]) =>
                    (ret.outcome = "QuantixException" /\ ret.kind = "short_read"
                     /\ ret.val = <<>>)
              /\ sys[1].ok => Len(sys[1].data) <= ret.args[1]

\* A read of 2 bytes to which the OS delivered 1 byte.
C2_Witness ==
    /\ ret.op = "read" /\ ret.args[1] = 2 /\ Len(sys) = 1
    /\ sys[1].ok /\ Len(sys[1].data) = 1 /\ ret.kind = "short_read"

(***************************************************************************)
(* C3: close, __exit__ and a failed __enter__ leave the handle closed and  *)
(* a successful __enter__ leaves it open, also after earlier releases;     *)
(* while the handle is closed every read or control call with valid        *)
(* arguments fails with the not-open QuantixException and issues no OS     *)
(* call; while it is open such a call issues its OS call and succeeds when *)
(* the OS call succeeds in full.                                           *)
(***************************************************************************)
C3_ClosedRejects ==
    /\ ret.op \in CloseOps => _fd = None
    /\ ret.op = "__enter__" => ((ret.outcome = "ok") <=> (_fd # None))
    /\ (ret.op \in ReadOps \cup CtlOps /\ ValidArgs /\ _fd = None) =>
          /\ ret.outcome = "QuantixException" /\ ret.kind = "not_open"
          /\ sys = <<>>
    /\ (ret.op \in CtlOps /\ ValidArgs /\ _fd # None) =>
          /\ Len(sys) = 1 /\ sys[1].call = "ioctl"
          /\ sys[1].ok => ret.outcome = "ok"
    /\ (ret.op \in ReadOps /\ ValidArgs /\ _fd # None) =>
          /\ Len(sys) = 1 /\ sys[1].call = "read"
          /\ (sys[1].ok /\ Len(sys[1].data) = DocLen) => ret.outcome = "ok"

\* A read rejected on a handle that was open before and has been released.
C3_Witness ==
    /\ released /\ _fd = None /\ ret.op = "read_int" /\ ret.kind = "not_open"

\* The handle re-acquired after a release, and a read on it succeeding.
C3_Reacquired ==
    /\ released /\ _fd # None /\ ret.op = "read_short" /\ ret.outcome = "ok"

(***************************************************************************)
(* C4: read_int_range(min_val, max_val) fails with ValueError and issues   *)
(* no OS read when min_val > max_val; otherwise a successful call has      *)
(* consumed exactly 4 bytes (also when min_val = max_val) and returns      *)
(* min_val + (u mod (max_val - min_val + 1)), u being the unsigned 32-bit  *)
(* value of those bytes: a value in [min_val, max_val], min_val itself     *)
(* when the bounds are equal.                                              *)
(***************************************************************************)
C4_Expected(min_val, max_val, data) ==
    LET r == max_val - min_val + 1
        b == IF byteorder = "big" THEN Reverse(data) ELSE data
    IN  min_val + (((((((b[4] % r) * 256 + b[3]) % r) * 256 + b[2]) % r) * 256 + b[1]) % r)

C4_IntRange ==
    ret.op = "read_int_range" =>
        /\ ret.args[1] > ret.args[2] => (ret.outcome = "ValueError" /\ sys = <<>>)
        /\ (ret.args[1] <= ret.args[2] /\ ret.outcome = "ok") =>
              /\ Len(sys) = 1 /\ sys[1].call = "read" /\ sys[1].n = 4
              /\ Len(sys[1].data) = 4
              /\ pos = sys[1].off + 4
              /\ ret.val = <<C4_Expected(ret.args[1], ret.args[2], sys[1].data)>>
              /\ ret.val[1] >= ret.args[1] /\ ret.val[1] <= ret.args[2]
              /\ ret.args[1] = ret.args[2] => ret.val[1] = ret.args[1]

\* A draw with a negative lower bound that is not the lower bound itself.
C4_Witness ==
    /\ ret.op = "read_int_range" /\ ret.outcome = "ok"
    /\ ret.args[1] < 0 /\ ret.args[2] > 0 /\ ret.val[1] > ret.args[1]

(***************************************************************************)
(* C5: read_float and read_double return a value v with 0.0 <= v < 1.0     *)
(* for every device output, after rounding to the float type returned.     *)
(* The value is numerator / 2^k with the numerator rounded to a double, so *)
(* v < 1.0 iff the rounded numerator is below 2^k.                         *)
(***************************************************************************)
C5_UnitInterval ==
    /\ (ret.op = "read_float" /\ ret.outcome = "ok") =>
          (ret.val[6] = 32 /\ FitsLimbs(SubSeq(ret.val, 1, 5), 2))
    /\ (ret.op = "read_double" /\ ret.outcome = "ok") =>
          (ret.val[6] = 64 /\ FitsLimbs(SubSeq(ret.val, 1, 5), 4))

\* The device answered a read_double with eight 0xFF bytes.
C5_AllOnes ==
    /\ ret.op = "read_double" /\ ret.outcome = "ok"
    /\ \A i \in 1..8 : sys[1].data[i] = 255

(***************************************************************************)
(* C6: every successful read call receives, through exactly one OS read on *)
(* the handle's descriptor, the segment of the device stream that starts   *)
(* where the previous delivery ended and has the call's documented length  *)
(* (read_short 2, read_int 4, read_float 4, read_double 8, read_int_range  *)
(* 4, read_bytes_list(n) n, read(n) n); read and read_bytes_list return    *)
(* those bytes, read_short the value of its 2 bytes in [0, 2^16), read_int *)
(* the value of its 4 bytes in [0, 2^32).                                  *)
(***************************************************************************)
C6_Step ==
    (ret'.op \in ReadOps /\ ret'.outcome = "ok") =>
        /\ Len(sys') = 1 /\ sys'[1].call = "read" /\ sys'[1].fd = _fd
        /\ sys'[1].n = DocLen' /\ Len(sys'[1].data) = DocLen'
        /\ sys'[1].off = pos /\ pos' = pos + DocLen'
        /\ ret'.op = "read" => ret'.val = sys'[1].data
        /\ ret'.op = "read_bytes_list" =>
              (ret'.val = sys'[1].data /\ Len(ret'.val) = ret'.args[1] /\ IsBytes(ret'.val))
        /\ ret'.op = "read_short" =>
              (ret'.val = ValueOfBytes(sys'[1].data) /\ FitsLimbs(ret'.val, 1))
        /\ ret'.op = "read_int" =>
              (ret'.val = ValueOfBytes(sys'[1].data) /\ FitsLimbs(ret'.val, 2))

\* C6, of every step of the handle.
C6_Contiguous == [][C6_Step]_vars

\* A read_double served from offset 1 of the stream, after a 1-byte read.
C6_Witness ==
    /\ ret.op = "read_double" /\ ret.outcome = "ok"
    /\ sys[1].off = 1 /\ sys[1].data[1] = ByteAt("ramp", 1) /\ pos = 9

(***************************************************************************)
(* C7: for field values within their widths _IOC puts the operation number *)
(* in bits 0-7, the type tag in bits 8-15, the payload size in bits 16-29  *)
(* and the direction in bits 30-31, nothing above bit 31, so two codes are *)
(* equal iff their four fields are; the nine codes of the operation table  *)
(* carry type 'q', their row's number, size and direction (none 0, write   *)
(* 1, read 2) and are pairwise distinct.                                   *)
(***************************************************************************)
RECURSIVE Field(_, _, _)
\* The number held in bits lo..hi of a code.
Field(code, lo, hi) ==
    IF lo > hi THEN 0 ELSE (IF lo \in code THEN 1 ELSE 0) + 2 * Field(code, lo + 1, hi)

InWidth(f) ==
    f.nr \in 0..255 /\ f.type \in 0..255 /\ f.size \in 0..16383 /\ f.dir \in 0..3

HasFields(code, dir, type, nr, size) ==
    /\ Field(code, 0, 7) = nr
    /\ Field(code, 8, 15) = type
    /\ Field(code, 16, 29) = size
    /\ Field(code, 30, 31) = dir
    /\ code \subseteq 0..31

\* The operation table: number, direction, payload size, and the constant.
Table ==
    { [nr |-> 0, dir |-> 2, size |-> 4, code |-> QUANTIS_IOCTL_GET_DRIVER_VERSION],
      [nr |-> 1, dir |-> 2, size |-> 4, code |-> QUANTIS_IOCTL_GET_CARD_COUNT],
      [nr |-> 2, dir |-> 2, size |-> 4, code |-> QUANTIS_IOCTL_GET_MODULES_MASK],
      [nr |-> 3, dir |-> 2, size |-> 4, code |-> QUANTIS_IOCTL_GET_BOARD_VERSION],
      [nr |-> 4, dir |-> 0, size |-> 0, code |-> QUANTIS_IOCTL_RESET_BOARD],
      [nr |-> 5, dir |-> 1, size |-> 4, code |-> QUANTIS_IOCTL_ENABLE_MODULE],
      [nr |-> 6, dir |-> 1, size |-> 4, code |-> QUANTIS_IOCTL_DISABLE_MODULE],
      [nr |-> 8, dir |-> 2, size |-> 4, code |-> QUANTIS_IOCTL_GET_MODULES_STATUS],
      [nr |-> 9, dir |-> 2, size |-> 4, code |-> QUANTIS_IOCTL_GET_PCI_BUS_DEVICE_ID] }

C7_Encoding ==
    /\ (enc.done /\ InWidth(enc.a)) =>
          HasFields(enc.ca, enc.a.dir, enc.a.type, enc.a.nr, enc.a.size)
    /\ (enc.done /\ InWidth(enc.a) /\ InWidth(enc.b)) =>
          ((enc.ca = enc.cb) <=> (enc.a = enc.b))
    /\ enc.done =>
          /\ \A r \in Table : HasFields(r.code, r.dir, 113, r.nr, r.size)
          /\ Cardinality({r.code : r \in Table}) = 9

\* Two tuples that differ only in neighbouring fields: the lowest direction
\* bit against the highest size bit.
C7_Witness ==
    /\ enc.done
    /\ enc.a = [dir |-> 1, type |-> 0, nr |-> 0, size |-> 0]
    /\ enc.b = [dir |-> 0, type |-> 0, nr |-> 0, size |-> 8192]
    /\ enc.ca = {30} /\ enc.cb = {29}

(***************************************************************************)
(* C8: on an open handle every query or control call issues exactly one    *)
(* ioctl on the handle's descriptor with the code of its table row, and    *)
(* handles the payload as the direction bits of that code say: a read code *)
(* passes a 4-byte buffer and returns the unsigned 32-bit value the driver *)
(* wrote, unmodified; a write code sends the argument as a 4-byte unsigned *)
(* value and returns 0; the none code (reset) sends no payload and returns *)
(* 0.                                                                      *)
(***************************************************************************)
RowOf(op) ==
    CASE op = "get_driver_version" -> [nr |-> 0, dir |-> 2, size |-> 4]
      [] op = "_ioctl" -> [nr |-> 1, dir |-> 2, size |-> 4]
      [] op = "get_modules_mask" -> [nr |-> 2, dir |-> 2, size |-> 4]
      [] op = "get_board_version" -> [nr |-> 3, dir |-> 2, size |-> 4]
      [] op = "reset_board" -> [nr |-> 4, dir |-> 0, size |-> 0]
      [] op = "enable_module" -> [nr |-> 5, dir |-> 1, size |-> 4]
      [] op = "disable_module" -> [nr |-> 6, dir |-> 1, size |-> 4]
      [] op \in {"get_modules_status", "get_modules_count"} -> [nr |-> 8, dir |-> 2, size |-> 4]
      [] op = "get_pci_info" -> [nr |-> 9, dir |-> 2, size |-> 4]

C8_Control ==
    (ret.op \in CtlOps /\ ValidArgs /\ _fd # None) =>
        /\ Len(sys) = 1 /\ sys[1].call = "ioctl" /\ sys[1].fd = _fd
        /\ HasFields(sys[1].req, RowOf(ret.op).dir, 113, RowOf(ret.op).nr, RowOf(ret.op).size)
        /\ Field(sys[1].req, 30, 31) = 2 =>
              /\ Len(sys[1].out) = 4
              /\ sys[1].ok => (ret.outcome = "ok" /\ Len(sys[1].data) = 4
                               /\ ret.io = ValueOfBytes(sys[1].data))
        /\ Field(sys[1].req, 30, 31) = 1 =>
              /\ Len(sys[1].out) = 4
              /\ ValueOfBytes(sys[1].out) = ToLimbs(ret.args[1])
              /\ sys[1].ok => (ret.outcome = "ok" /\ ret.io = ZeroLimbs)
        /\ Field(sys[1].req, 30, 31) = 0 =>
              /\ sys[1].out = <<>>
              /\ sys[1].ok => (ret.outcome = "ok" /\ ret.io = ZeroLimbs)

\* disable_module(3) carried out on an open handle.
C8_Witness ==
    /\ ret.op = "disable_module" /\ ret.args = <<3>> /\ ret.outcome = "ok"
    /\ _fd # None /\ Len(sys) = 1

(***************************************************************************)
(* C9: when the OS call of __enter__ (open), _ioctl (ioctl) or read (read) *)
(* fails, the caller gets a QuantixException carrying the device path, no  *)
(* other exception, and that failed call is the only OS call attempted; a  *)
(* failed open leaves the handle closed, a failed ioctl or read leaves it  *)
(* open on the same descriptor.                                            *)
(***************************************************************************)
C9_OsFailure ==
    \A i \in 1..Len(sys) :
        (sys[i].call \in {"open", "read", "ioctl"} /\ ~sys[i].ok) =>
            /\ Len(sys) = 1
            /\ ret.outcome = "QuantixException"
            /\ ret.path = device_path /\ device_path # NoPath
            /\ sys[i].call = "open" => (_fd = None /\ osOpen = {})
            /\ sys[i].call \in {"read", "ioctl"} =>
                  (_fd # None /\ _fd = sys[i].fd /\ osOpen = {_fd})

\* The ioctl of get_pci_info failed on an open handle.
C9_Witness ==
    /\ ret.op = "get_pci_info" /\ Len(sys) = 1 /\ ~sys[1].ok
    /\ ret.kind = "ioctl_failed" /\ _fd # None

(***************************************************************************)
(* C10: __enter__ on an open handle issues no OS call and keeps the        *)
(* descriptor; close (also as __exit__ and as the finalizer, which is the  *)
(* only close a failed construction sees) never raises and leaves the      *)
(* handle closed with no descriptor held, also when the OS close fails; on *)
(* a closed handle it issues no OS call and changes nothing, so repeated   *)
(* closes leave the state one close leaves.                                *)
(***************************************************************************)
C10_Step ==
    /\ (ret'.op = "__enter__" /\ _fd # None) =>
          /\ sys' = <<>> /\ ret'.outcome = "ok"
          /\ _fd' = _fd /\ osOpen' = osOpen /\ pos' = pos
    /\ ret'.op \in CloseOps =>
          /\ ret'.outcome = "ok"
          /\ _fd' = None /\ osOpen' = {} /\ pos' = pos
          /\ _fd = None => (sys' = <<>> /\ osOpen' = osOpen)
          /\ _fd # None => (Len(sys') = 1 /\ sys'[1].call = "close" /\ sys'[1].fd = _fd)

\* C10, of every step of the handle.
C10_Idempotent == [][C10_Step]_vars

\* The OS close failed; the error was swallowed and the handle is closed.
C10_Witness ==
    /\ ret.op = "close" /\ ret.outcome = "ok" /\ Len(sys) = 1 /\ ~sys[1].ok
    /\ _fd = None /\ osOpen = {}


(***************************************************************************)
(* C11: scoped use.                                                        *)
(***************************************************************************)
\* C11: whenever a with-block on the handle is left, by normal completion or
\* by an exception, nested or not, the handle is closed and no descriptor of
\* it remains open; and when __enter__ raises, no descriptor is held either.
C11_ScopedRelease ==
    /\ ret.op = "__exit__" => (_fd = None /\ osOpen = {} /\ ret.outcome = "ok")
    /\ (ret.op = "__enter__" /\ ret.outcome # "ok") => (_fd = None /\ osOpen = {})

\* The inner of two nested blocks has just been left by an exception, the
\* descriptor was closed by that exit, and the outer block is still running.
C11_Witness ==
    /\ ret.op = "__exit__" /\ ret.args = <<1>> /\ depth = 1
    /\ Len(sys) = 1 /\ sys[1].call = "close"

(***************************************************************************)
(* C12: the module number of enable_module and disable_module.             *)
(***************************************************************************)
ModuleOps == {"enable_module", "disable_module"}

ModuleCode(op) ==
    IF op = "enable_module" THEN QUANTIS_IOCTL_ENABLE_MODULE ELSE QUANTIS_IOCTL_DISABLE_MODULE

C12_Step ==
    ret'.op \in ModuleOps =>
        LET m == ret'.args[1]
        IN  /\ m \notin 0..3 =>
                  /\ ret'.outcome = "ValueError"
                  /\ sys' = <<>>
                  /\ _fd' = _fd /\ osOpen' = osOpen /\ pos' = pos
            /\ (m \in 0..3 /\ _fd # None) =>
                  /\ Len(sys') = 1 /\ sys'[1].call = "ioctl" /\ sys'[1].fd = _fd
                  /\ sys'[1].req = ModuleCode(ret'.op)
                  /\ Field(sys'[1].req, 30, 31) = _IOC_WRITE
                  /\ ValueOfBytes(sys'[1].out) = ToLimbs(m)
                  /\ _fd' = _fd /\ osOpen' = osOpen

\* C12: enable_module(m) and disable_module(m) with m outside 0..3 raise
\* ValueError, issue no OS call (so nothing reaches the driver and its
\* modules) and leave the handle open or closed as it was; with m in 0..3
\* on an open handle they issue exactly one ioctl, of write direction, with
\* the operation's code and m as its payload.
C12_ModuleNumber == [][C12_Step]_vars

\* enable_module(4) rejected on an open handle.
C12_Witness ==
    /\ ret.op = "enable_module" /\ ret.args = <<4>> /\ ret.outcome = "ValueError"
    /\ _fd # None /\ sys = <<>>

(***************************************************************************)
(* C13: the module bitmasks and the module count.                          *)
(***************************************************************************)
\* bits 0-3 of a 32-bit value held as limbs.
LowNibble(v) == v[1] % 16

\* C13: whatever 32-bit value the driver writes, get_modules_mask and
\* get_modules_status return a bitmask in 0..15, and get_modules_count
\* returns a number in 0..4, the number of set bits among bits 0-3 of the
\* status.
C13_ModuleBits ==
    /\ (ret.op \in {"get_modules_mask", "get_modules_status"} /\ ret.outcome = "ok") =>
          /\ ret.val = ToLimbs(LowNibble(ret.val))
          /\ ret.val[1] \in 0..15
    /\ (ret.op = "get_modules_count" /\ ret.outcome = "ok") =>
          /\ ret.val[1] \in 0..4
          /\ ret.val[1] = PopCount(LowNibble(ret.io))

(***************************************************************************)
(* C14: the PCI bus and device identifiers.                                *)
(***************************************************************************)
\* Bit i of the unsigned value whose bytes are b, least significant first.
BitOfBytes(b, i) == (b[(i \div 8) + 1] \div Pow2(i % 8)) % 2

RECURSIVE BitsOfBytes(_, _, _)
\* The number formed by bits lo..hi of that value.
BitsOfBytes(b, lo, hi) ==
    IF lo > hi THEN 0 ELSE BitOfBytes(b, lo) + 2 * BitsOfBytes(b, lo + 1, hi)

\* C14: for the 32-bit value v the driver writes for the PCI operation,
\* get_pci_info returns (bus_id, device_id) with bus_id = bits 16-31 of v
\* and device_id = bits 0-15 of v, both in 0..65535, and
\* bus_id * 2^16 + device_id = v.
C14_PciInfo ==
    (ret.op = "get_pci_info" /\ ret.outcome = "ok") =>
        LET v == NativeToLE(sys[1].data)
            bus_id == ret.val[1]
            device_id == ret.val[2]
        IN  /\ Len(ret.val) = 2
            /\ bus_id = BitsOfBytes(v, 16, 31)
            /\ device_id = BitsOfBytes(v, 0, 15)
            /\ bus_id \in 0..65535 /\ device_id \in 0..65535
            /\ <<device_id, bus_id, 0, 0>> = ValueOfBytes(sys[1].data)

\* get_pci_info returning bus 3 and device 21 for the driver value 0x00030015.
C14_Witness ==
    /\ ret.op = "get_pci_info" /\ ret.outcome = "ok" /\ ret.val = <<3, 21>>
    /\ Len(sys) = 1 /\ sys[1].call = "ioctl"

=============================================================================
